---- MODULE Spec2Model ----
(***************************************************************************)
(* Block codec and round-trip verifier of lai.py: a file is split into    *)
(* B-byte chunks, each chunk becomes an integer below the modulus, every   *)
(* integer is encrypted, the bundle is written and read back, every record *)
(* is decrypted, the integers are turned back into bytes and the result is *)
(* compared with the file.                                                 *)
(***************************************************************************)
EXTENDS Integers, Sequences, FiniteSets, TLC

(* ------------------------------ bounds -------------------------------- *)

\* Longest plaintext file explored, in bytes.
MaxLen == 3

\* Largest modulus explored by the block-size calculation on its own.
MaxModulus == 70000

\* Byte values a plaintext file is built from (0x00, 0x41, 0xFF).
ByteVals == {0, 65, 255}

\* Moduli a run is started with: 251 gives B = 0; 256, 10007 and 32771 give
\* B = 1 (256 = 2^8 and 32771 has a bit length of 16); 65537 gives B = 2.
Moduli == {251, 256, 10007, 32771, 65537}

\* Private keys keygen may return and nonces encrypt may draw.
KVals == {3, 11}
RVals == {1, 2}

(* ------------------------- program constants -------------------------- *)

\* lai.py:7-9, the module-level parameters.
p_shipped == 10007
a == 5
P0 == <<1, 0>>

VARIABLES
    file,                  \* contents of script.min.js
    p,                     \* the modulus the run is started with
    pc,                    \* position of the run
    status,                \* "running", "pass" or the error raised
    k, Q,                  \* keypair of keygen
    raw,                   \* bytes read by file_to_int_blocks
    reads,                 \* number of times the source file was read
    B_enc,                 \* B of file_to_int_blocks
    n_blocks,              \* n_blocks of file_to_int_blocks
    blocks,                \* blocks of file_to_int_blocks
    m_blocks,              \* m_blocks of encrypt_js_file
    ciphertext_blocks,     \* ciphertext_blocks of encrypt_js_file
    written,               \* whether script.min.json was written
    disk,                  \* contents of script.min.json
    loaded,                \* loaded, the bundle read back
    decrypted_int_blocks,  \* decrypted_int_blocks of __main__
    B,                     \* B of __main__
    all_bytes,             \* all_bytes of __main__
    n_decoded,             \* integers the decode loop has gone past
    original_bytes,        \* original_bytes of __main__
    decrypted_bytes,       \* decrypted_bytes of __main__
    faithful               \* every decrypt so far returned the inverse of encrypt

vars == <<file, p, pc, status, k, Q, raw, reads, B_enc, n_blocks, blocks,
          m_blocks, ciphertext_blocks, written, disk, loaded,
          decrypted_int_blocks, B, all_bytes, n_decoded, original_bytes,
          decrypted_bytes, faithful>>

(* ------------------------- Python primitives -------------------------- *)

\* int.bit_length(): bits needed for |n|, 0 for 0.
RECURSIVE bit_length(_)
bit_length_log2(n) == IF n <= 1 THEN 0 ELSE 1 + bit_length(n \div 2)
bit_length(n) ==
    IF n < 0 THEN bit_length(-n)
    ELSE IF n = 0 THEN 0 ELSE 1 + bit_length(n \div 2)

\* math.ceil(x / y) for x >= 0, y >= 1.
ceil_div(x, y) == (x + y - 1) \div y

\* int.from_bytes(chunk, byteorder="big").
RECURSIVE from_bytes(_)
from_bytes_little(chunk) ==
    IF chunk = <<>> THEN 0
    ELSE Head(chunk) + 256 * from_bytes(Tail(chunk))
from_bytes(chunk) ==
    IF chunk = <<>> THEN 0
    ELSE 256 * from_bytes(SubSeq(chunk, 1, Len(chunk) - 1)) + chunk[Len(chunk)]

\* int.to_bytes(length, byteorder="big"), for m < 256^length.
RECURSIVE to_bytes(_, _)
to_bytes(m, length) ==
    IF length = 0 THEN <<>>
    ELSE Append(to_bytes(m \div 256, length - 1), m % 256)

\* bytes.rjust(width, b"\x00").
RECURSIVE rjust(_, _)
ljust(chunk, width) ==
    IF Len(chunk) >= width THEN chunk
    ELSE chunk \o [j \in 1..(width - Len(chunk)) |-> 0]
rjust(chunk, width) ==
    IF Len(chunk) >= width THEN chunk
    ELSE rjust(<<0>> \o chunk, width)

\* seq[start:end] of Python, 0-based, end exclusive, clamped to the length.
Slice(seq, start, end) ==
    LET hi == IF end < Len(seq) THEN end ELSE Len(seq)
    IN  SubSeq(seq, start + 1, hi)

(* ------------------------------ lai.py -------------------------------- *)

\* max_block_size, lines 11-17.
max_block_size_whole_bytes(p_val) == bit_length(p_val) \div 8
max_block_size(p_val) == (bit_length(p_val) - 1) \div 8

\* max_block_size_int, lines 94-95.
max_block_size_int_up(p_val) == (bit_length(p_val) + 7) \div 8
max_block_size_int(p_val) == (bit_length(p_val) - 1) \div 8

\* file_to_int_blocks, lines 36-39: the integer of chunk i.
chunk_of(raw_val, i, B_val) == Slice(raw_val, i * B_val, i * B_val + B_val)
m_int_of(raw_val, i, B_val) == from_bytes(chunk_of(raw_val, i, B_val))

\* __main__, line 112: the range test of the decode loop.
out_of_range_open(m_int, p_val) == m_int < 0 \/ m_int > p_val
out_of_range(m_int, p_val) == m_int < 0 \/ m_int >= p_val

\* __main__, lines 114-118: the shortest big-endian form of m_int, one zero
\* byte for 0.
minimal_chunk(m_int) ==
    IF m_int = 0 THEN <<0>>
    ELSE to_bytes(m_int, ceil_div(bit_length(m_int), 8))

\* __main__, line 119: the length test of the decode loop.
too_long(chunk, B_val) == Len(chunk) > B_val

\* __main__, line 122: the chunk padded on the left to B bytes.
padded_left_aligned(chunk, B_val) == ljust(chunk, B_val)
padded(chunk, B_val) == rjust(chunk, B_val)

\* __main__, line 128: all_bytes[: len(original_bytes)].
truncated(bytes_val, length) == Slice(bytes_val, 0, length)

\* __main__, lines 129-131: the comparison that ends the run.
verdict_by_length(decrypted_val, original_val) ==
    IF Len(decrypted_val) # Len(original_val) THEN "RoundTripMismatch" ELSE "pass"
verdict(decrypted_val, original_val) ==
    IF decrypted_val # original_val THEN "RoundTripMismatch" ELSE "pass"

\* encrypt_js_file, lines 63-67: the record of one block, appended.
record_of(enc) ==
    [C1 |-> <<enc[1][1], enc[1][2]>>, C2 |-> <<enc[2][1], enc[2][2]>>, r |-> enc[3]]
with_record_first(records, rec) == <<rec>> \o records
with_record(records, rec) == Append(records, rec)

\* encrypt_js_file, lines 70-77: the bundle.
bundle_of(p_val, a_val, P0_val, k_val, Q_val, records) ==
    [p |-> p_val, a |-> a_val, P0 |-> <<P0_val[1], P0_val[2]>>, k |-> k_val,
     Q |-> <<Q_val[1], Q_val[2]>>, blocks |-> records]

NoBundle == bundle_of(0, 0, <<0, 0>>, 0, <<0, 0>>, <<>>)

(* ---------------------- the cipher, by its contract -------------------- *)

\* keygen(p, a, P0) -> (k, Q) for the private key k drawn.
keygen(p_val, a_val, P0_val, k_val) ==
    <<k_val, <<(k_val * P0_val[1]) % p_val, (k_val * a_val + P0_val[2]) % p_val>>>>

\* encrypt(m, Q, k, p, a, P0) -> (C1, C2, r) for the nonce r drawn.
encrypt(m_int, Q_val, k_val, p_val, a_val, P0_val, r_val) ==
    << <<(r_val * P0_val[1]) % p_val, (r_val * a_val) % p_val>>,
       <<(m_int + k_val * r_val) % p_val, (Q_val[1] * r_val) % p_val>>,
       r_val >>

\* decrypt(C1, C2, k, r, a, p) -> m, the inverse of encrypt for 0 <= m < p.
decrypt(C1, C2, k_val, r_val, a_val, p_val) == (C2[1] - k_val * r_val) % p_val

\* What a decrypt call can hand back when the record, the key or the cipher
\* is not the one the bundle was made with: below 0, 0, one byte too long for
\* B = 1, one byte too long for B = 2, and the modulus itself.
FaultInts(p_val) == {-1, 0, 256, 65536, p_val}

(* ------------------------------ the run ------------------------------- *)

\* All byte sequences of at most n bytes.
Files(n) == UNION {[1..len -> ByteVals] : len \in 0..n}

\* Nothing has run yet.
Fresh ==
    /\ status = "running"
    /\ k = 0
    /\ Q = <<0, 0>>
    /\ raw = <<>>
    /\ reads = 0
    /\ B_enc = 0
    /\ n_blocks = 0
    /\ blocks = <<>>
    /\ m_blocks = <<>>
    /\ ciphertext_blocks = <<>>
    /\ written = FALSE
    /\ disk = NoBundle
    /\ loaded = NoBundle
    /\ decrypted_int_blocks = <<>>
    /\ B = 0
    /\ all_bytes = <<>>
    /\ n_decoded = 0
    /\ original_bytes = <<>>
    /\ decrypted_bytes = <<>>
    /\ faithful = TRUE

Init ==
    /\ file \in Files(MaxLen)
    /\ p \in Moduli
    /\ pc = "keygen"
    /\ Fresh

\* encrypt_js_file, line 54.
Keygen ==
    /\ pc = "keygen"
    /\ \E k_val \in KVals :
         LET pair == keygen(p, a, P0, k_val)
         IN  /\ k' = pair[1]
             /\ Q' = pair[2]
    /\ pc' = "read"
    /\ UNCHANGED <<file, p, status, raw, reads, B_enc, n_blocks, blocks, m_blocks,
                   ciphertext_blocks, written, disk, loaded, decrypted_int_blocks,
                   B, all_bytes, n_decoded, original_bytes, decrypted_bytes,
                   faithful>>

\* file_to_int_blocks, lines 26-27.
ReadFile ==
    /\ pc = "read"
    /\ raw' = file
    /\ reads' = reads + 1
    /\ pc' = "block_size"
    /\ UNCHANGED <<file, p, status, k, Q, B_enc, n_blocks, blocks, m_blocks,
                   ciphertext_blocks, written, disk, loaded, decrypted_int_blocks,
                   B, all_bytes, n_decoded, original_bytes, decrypted_bytes,
                   faithful>>

\* file_to_int_blocks, lines 29-34.
BlockSize ==
    /\ pc = "block_size"
    /\ B_enc' = max_block_size(p)
    /\ IF B_enc' < 1
       THEN /\ status' = "ConfigurationError"
            /\ pc' = "failed"
            /\ UNCHANGED <<n_blocks, blocks>>
       ELSE /\ blocks' = <<>>
            /\ n_blocks' = ceil_div(Len(raw), B_enc')
            /\ pc' = "encode"
            /\ UNCHANGED status
    /\ UNCHANGED <<file, p, k, Q, raw, reads, m_blocks, ciphertext_blocks, written,
                   disk, loaded, decrypted_int_blocks, B, all_bytes, n_decoded,
                   original_bytes, decrypted_bytes, faithful>>

\* file_to_int_blocks, lines 35-42: one turn of the loop, i = len(blocks).
EncodeBlock ==
    /\ pc = "encode"
    /\ Len(blocks) < n_blocks
    /\ LET m_int == m_int_of(raw, Len(blocks), B_enc)
       IN  IF m_int >= p
           THEN /\ status' = "EncodingRangeError"
                /\ pc' = "failed"
                /\ UNCHANGED blocks
           ELSE /\ blocks' = Append(blocks, m_int)
                /\ UNCHANGED <<status, pc>>
    /\ UNCHANGED <<file, p, k, Q, raw, reads, B_enc, n_blocks, m_blocks,
                   ciphertext_blocks, written, disk, loaded, decrypted_int_blocks,
                   B, all_bytes, n_decoded, original_bytes, decrypted_bytes,
                   faithful>>

\* file_to_int_blocks, line 44, and encrypt_js_file, lines 57-59.
EncodeReturn ==
    /\ pc = "encode"
    /\ Len(blocks) = n_blocks
    /\ m_blocks' = blocks
    /\ ciphertext_blocks' = <<>>
    /\ pc' = "encrypt"
    /\ UNCHANGED <<file, p, status, k, Q, raw, reads, B_enc, n_blocks, blocks,
                   written, disk, loaded, decrypted_int_blocks, B, all_bytes,
                   n_decoded, original_bytes, decrypted_bytes, faithful>>

\* encrypt_js_file, lines 60-67: one turn of the loop.
EncryptBlock ==
    /\ pc = "encrypt"
    /\ Len(ciphertext_blocks) < Len(m_blocks)
    /\ \E r_val \in RVals :
         LET m_int == m_blocks[Len(ciphertext_blocks) + 1]
             enc == encrypt(m_int, Q, k, p, a, P0, r_val)
         IN  ciphertext_blocks' = with_record(ciphertext_blocks, record_of(enc))
    /\ UNCHANGED <<file, p, pc, status, k, Q, raw, reads, B_enc, n_blocks, blocks,
                   m_blocks, written, disk, loaded, decrypted_int_blocks, B,
                   all_bytes, n_decoded, original_bytes, decrypted_bytes, faithful>>

\* encrypt_js_file, lines 70-80.
WriteBundle ==
    /\ pc = "encrypt"
    /\ Len(ciphertext_blocks) = Len(m_blocks)
    /\ disk' = bundle_of(p, a, P0, k, Q, ciphertext_blocks)
    /\ written' = TRUE
    /\ pc' = "load"
    /\ UNCHANGED <<file, p, status, k, Q, raw, reads, B_enc, n_blocks, blocks,
                   m_blocks, ciphertext_blocks, loaded, decrypted_int_blocks, B,
                   all_bytes, n_decoded, original_bytes, decrypted_bytes, faithful>>

\* __main__, lines 91-97.
LoadBundle ==
    /\ pc = "load"
    /\ loaded' = disk
    /\ decrypted_int_blocks' = <<>>
    /\ pc' = "decrypt"
    /\ UNCHANGED <<file, p, status, k, Q, raw, reads, B_enc, n_blocks, blocks,
                   m_blocks, ciphertext_blocks, written, disk, B, all_bytes,
                   n_decoded, original_bytes, decrypted_bytes, faithful>>

\* __main__, lines 98-106: one turn of the loop.  The cipher hands back the
\* inverse of encrypt, or, once in a run, an integer of FaultInts.
DecryptBlock ==
    /\ pc = "decrypt"
    /\ Len(decrypted_int_blocks) < Len(loaded.blocks)
    /\ LET blk == loaded.blocks[Len(decrypted_int_blocks) + 1]
           inverse == decrypt(blk.C1, blk.C2, loaded.k, blk.r, loaded.a, loaded.p)
           outcomes == IF faithful THEN {inverse} \cup FaultInts(loaded.p)
                       ELSE {inverse}
       IN  \E m_int \in outcomes :
             /\ decrypted_int_blocks' = Append(decrypted_int_blocks, m_int)
             /\ faithful' = (faithful /\ m_int = inverse)
    /\ UNCHANGED <<file, p, pc, status, k, Q, raw, reads, B_enc, n_blocks, blocks,
                   m_blocks, ciphertext_blocks, written, disk, loaded, B, all_bytes,
                   n_decoded, original_bytes, decrypted_bytes>>

\* __main__, lines 109-110.
BlockSizeInt ==
    /\ pc = "decrypt"
    /\ Len(decrypted_int_blocks) = Len(loaded.blocks)
    /\ B' = max_block_size_int(loaded.p)
    /\ all_bytes' = <<>>
    /\ n_decoded' = 0
    /\ pc' = "decode"
    /\ UNCHANGED <<file, p, status, k, Q, raw, reads, B_enc, n_blocks, blocks,
                   m_blocks, ciphertext_blocks, written, disk, loaded,
                   decrypted_int_blocks, original_bytes, decrypted_bytes, faithful>>

\* __main__, lines 111-123: one turn of the loop.
DecodeBlock ==
    /\ pc = "decode"
    /\ n_decoded < Len(decrypted_int_blocks)
    /\ LET m_int == decrypted_int_blocks[n_decoded + 1]
           chunk == minimal_chunk(m_int)
       IN  IF out_of_range(m_int, loaded.p)
           THEN /\ status' = "DecodingRangeError"
                /\ pc' = "failed"
                /\ UNCHANGED <<all_bytes, n_decoded>>
           ELSE IF too_long(chunk, B)
           THEN /\ status' = "LengthOverflowError"
                /\ pc' = "failed"
                /\ UNCHANGED <<all_bytes, n_decoded>>
           ELSE /\ all_bytes' = all_bytes \o padded(chunk, B)
                /\ n_decoded' = n_decoded + 1
                /\ UNCHANGED <<status, pc>>
    /\ UNCHANGED <<file, p, k, Q, raw, reads, B_enc, n_blocks, blocks, m_blocks,
                   ciphertext_blocks, written, disk, loaded, decrypted_int_blocks,
                   B, original_bytes, decrypted_bytes, faithful>>

\* __main__, lines 126-131.
Verify ==
    /\ pc = "decode"
    /\ n_decoded = Len(decrypted_int_blocks)
    /\ original_bytes' = file
    /\ reads' = reads + 1
    /\ decrypted_bytes' = truncated(all_bytes, Len(original_bytes'))
    /\ status' = verdict(decrypted_bytes', original_bytes')
    /\ pc' = IF status' = "pass" THEN "done" ELSE "failed"
    /\ UNCHANGED <<file, p, k, Q, raw, B_enc, n_blocks, blocks, m_blocks,
                   ciphertext_blocks, written, disk, loaded, decrypted_int_blocks,
                   B, all_bytes, n_decoded, faithful>>

Next ==
    \/ Keygen
    \/ ReadFile
    \/ BlockSize
    \/ EncodeBlock
    \/ EncodeReturn
    \/ EncryptBlock
    \/ WriteBundle
    \/ LoadBundle
    \/ DecryptBlock
    \/ BlockSizeInt
    \/ DecodeBlock
    \/ Verify

Spec == Init /\ [][Next]_vars

(* ----------------- the block-size calculation on its own --------------- *)

InitCalc ==
    /\ file = <<>>
    /\ p \in 2..MaxModulus
    /\ pc = "calc"
    /\ Fresh

\* max_block_size(p) applied to the modulus drawn.
Calc ==
    /\ pc = "calc"
    /\ B_enc' = max_block_size(p)
    /\ pc' = "calculated"
    /\ UNCHANGED <<file, p, status, k, Q, raw, reads, n_blocks, blocks, m_blocks,
                   ciphertext_blocks, written, disk, loaded, decrypted_int_blocks,
                   B, all_bytes, n_decoded, original_bytes, decrypted_bytes,
                   faithful>>

NextCalc == Calc

SpecCalc == InitCalc /\ [][NextCalc]_vars

(* ------------------------------ properties ---------------------------- *)

\* Big-endian value of a byte sequence, as the sum of byte * 256^position.
RECURSIVE BESum(_, _)
BESum(seq, j) ==
    IF j = 0 THEN 0 ELSE seq[j] * 256^(Len(seq) - j) + BESum(seq, j - 1)
BEValue(seq) == BESum(seq, Len(seq))

\* The smaller of two integers.
Min(x, y) == IF x < y THEN x ELSE y

\* The first length bytes of bytes_val are exactly target.
SameBytes(bytes_val, target) ==
    /\ Len(bytes_val) >= Len(target)
    /\ \A j \in 1..Len(target) : bytes_val[j] = target[j]

\* The encoder has returned its block sequence.
Encoded == pc \in {"encrypt", "load", "decrypt", "decode", "done"} \/ written

\* C2: for every modulus p >= 2, max_block_size(p) is floor((n - 1) / 8) for
\* the bit length n of p (2^(n-1) <= p < 2^n), 2^(8B) <= p, and every
\* big-endian integer of at most B bytes is below p.
C2_BlockSizeFormula ==
    pc = "calculated" =>
        \E n \in 1..24 :
            /\ 2^(n - 1) <= p /\ p < 2^n
            /\ 8 * B_enc <= n - 1 /\ n - 1 < 8 * (B_enc + 1)
            /\ 256^B_enc <= p
            /\ \A len \in 0..B_enc : from_bytes([j \in 1..len |-> 255]) < p

\* A modulus that is exactly 2^(8B), B = 2, has been through the calculation.
C2_Witness == pc = "calculated" /\ p = 65536 /\ B_enc = 2

\* C1: decoding the encoder's own block sequence (each integer padded on the
\* left to B bytes, concatenated, truncated to the file's length) gives back
\* the file, for every length and every modulus with B >= 1.
C1_CodecRoundTrip ==
    (/\ pc = "decode"
     /\ n_decoded = Len(decrypted_int_blocks)
     /\ decrypted_int_blocks = m_blocks)
        => Slice(all_bytes, 0, Len(file)) = file

\* C3: a run whose modulus gives B < 1 ends in the configuration error without
\* having read the source file, encoded, encrypted or written the bundle.
C3_ConfigErrorBeforeIO ==
    status = "ConfigurationError" =>
        /\ reads = 0
        /\ raw = <<>>
        /\ blocks = <<>>
        /\ ciphertext_blocks = <<>>
        /\ ~written

\* C10: no chunk's integer reaches p, so the encoder never raises its range
\* error and hands back one integer for every chunk.
C10_EncoderNeverOutOfRange ==
    /\ status # "EncodingRangeError"
    /\ pc = "encode" =>
          \A i \in 0..(n_blocks - 1) : BEValue(chunk_of(raw, i, B_enc)) < p
    /\ (Encoded /\ B_enc >= 1) => Len(m_blocks) = n_blocks

\* The encoder has returned a block equal to p - 1, the largest value below p.
C10_Witness ==
    /\ pc = "encrypt"
    /\ \E i \in 1..Len(m_blocks) : m_blocks[i] = p - 1

\* C6: the encoder yields ceil(L / B) integers, integer i the big-endian value
\* of bytes [i*B, min((i+1)*B, L)) of the file, in [0, 256^len) and below p;
\* an empty file yields no block.
C6_EncoderPartition ==
    LET L == Len(file)
        InOrder(seq) ==
            \A i \in 0..(Len(seq) - 1) :
                LET lo == i * B_enc
                    hi == Min((i + 1) * B_enc, L)
                    bytes_i == [j \in 1..(hi - lo) |-> file[lo + j]]
                IN  /\ lo < hi
                    /\ seq[i + 1] = BEValue(bytes_i)
                    /\ 0 <= seq[i + 1]
                    /\ seq[i + 1] < 256^(hi - lo)
                    /\ seq[i + 1] < p
    IN  /\ pc = "encode" => InOrder(blocks)
        /\ (Encoded /\ B_enc >= 1) =>
              /\ InOrder(m_blocks)
              /\ Len(m_blocks) * B_enc >= L
              /\ (Len(m_blocks) - 1) * B_enc < L \/ (L = 0 /\ m_blocks = <<>>)

\* A three-byte file has been encoded with B = 2: two blocks, the last of a
\* single byte.
C6_Witness ==
    /\ pc = "encrypt"
    /\ B_enc = 2
    /\ Len(file) = 3
    /\ Len(m_blocks) = 2
    /\ m_blocks[2] = file[3]

\* C4: an integer of the decrypted sequence outside [0, p) stops the decoder
\* at that integer with the range error; no byte is appended for it and the
\* run never passes.
C4_DecoderRangeCheck ==
    \A i \in 1..Len(decrypted_int_blocks) :
        LET m_int == decrypted_int_blocks[i]
        IN  (m_int < 0 \/ m_int >= loaded.p) =>
                /\ n_decoded < i
                /\ Len(all_bytes) <= (i - 1) * B
                /\ status \notin {"pass", "RoundTripMismatch"}
                /\ pc # "done"
                /\ (pc = "failed" /\ n_decoded = i - 1) =>
                       status = "DecodingRangeError"

\* The decoder has stopped with the range error at an integer equal to p,
\* after appending the bytes of an earlier integer.
C4_Witness ==
    /\ status = "DecodingRangeError"
    /\ pc = "failed"
    /\ n_decoded >= 1
    /\ all_bytes # <<>>
    /\ decrypted_int_blocks[n_decoded + 1] = loaded.p

\* The decode loop is over and the comparison is next.
VerifyDue == pc = "decode" /\ n_decoded = Len(decrypted_int_blocks)

\* C5: the run passes only by the comparison, and only when the assembled
\* bytes cut to the file's length equal the file; any difference ends the run
\* with the mismatch error, and a failed run never passes afterwards.
C5_VerifierStrict ==
    [][IF VerifyDue
       THEN IF SameBytes(all_bytes, file)
            THEN status' = "pass" /\ pc' = "done"
            ELSE status' = "RoundTripMismatch" /\ pc' = "failed"
       ELSE /\ status' = "pass" => status = "pass"
            /\ pc' = "done" => pc = "done"
            /\ pc = "failed" => pc' = "failed"]_vars

\* The comparison has failed on a byte, the lengths being equal.
C5_Witness ==
    /\ status = "RoundTripMismatch"
    /\ pc = "failed"
    /\ Len(decrypted_bytes) = Len(file)
    /\ decrypted_bytes # file

\* C7: with p = 10007, B is 1, the encoder yields one integer per byte, equal
\* to the byte, and a run whose every decrypt inverts encrypt rebuilds the
\* file and passes.
C7_ShippedModulus ==
    p = p_shipped =>
        /\ pc \notin {"keygen", "read", "block_size"} => B_enc = 1
        /\ pc = "encode" => blocks = SubSeq(file, 1, Len(blocks))
        /\ Encoded => m_blocks = file /\ \A i \in 1..Len(file) : m_blocks[i] \in 0..255
        /\ (faithful /\ pc \in {"done", "failed"}) =>
              /\ status = "pass"
              /\ pc = "done"
              /\ decrypted_bytes = file
        /\ (faithful /\ VerifyDue) => all_bytes = file

\* The bytes 0x41 0x00 0xFF have gone through the whole run under p = 10007.
C7_Witness ==
    /\ p = p_shipped
    /\ file = <<65, 0, 255>>
    /\ m_blocks = <<65, 0, 255>>
    /\ faithful
    /\ status = "pass"
    /\ decrypted_bytes = <<65, 0, 255>>

\* Bytes appended by the decoder for the i-th integer.
Segment(i) == SubSeq(all_bytes, (i - 1) * B + 1, i * B)

\* C8: record i is the encryption of block i, records are appended in order;
\* the bundle written and read back holds one record per block in that order;
\* integer i after reload comes from record i and the bytes decoded at
\* position i come from integer i.
C8_IndexAlignment ==
    /\ Len(ciphertext_blocks) <= Len(m_blocks)
    /\ \A i \in 1..Len(ciphertext_blocks) :
          /\ ciphertext_blocks[i].r \in RVals
          /\ ciphertext_blocks[i] =
                record_of(encrypt(m_blocks[i], Q, k, p, a, P0, ciphertext_blocks[i].r))
    /\ written =>
          /\ disk.blocks = ciphertext_blocks
          /\ Len(disk.blocks) = Len(m_blocks)
    /\ pc \in {"decrypt", "decode", "done"} => loaded = disk
    /\ Len(decrypted_int_blocks) <= Len(loaded.blocks)
    /\ \A i \in 1..Len(decrypted_int_blocks) :
          LET blk == loaded.blocks[i]
              inverse == decrypt(blk.C1, blk.C2, loaded.k, blk.r, loaded.a, loaded.p)
          IN  /\ decrypted_int_blocks[i] \in {inverse} \cup FaultInts(loaded.p)
              /\ inverse = m_blocks[i]
              /\ faithful => decrypted_int_blocks[i] = m_blocks[i]
    /\ \A i \in 1..n_decoded : BEValue(Segment(i)) = decrypted_int_blocks[i]

\* Three different blocks have been encrypted, written, read back, decrypted
\* and decoded, every decrypt inverting encrypt.
C8_Witness ==
    /\ pc = "decode"
    /\ faithful
    /\ m_blocks = <<65, 0, 255>>
    /\ n_decoded = 3
    /\ Len(disk.blocks) = 3

\* C9: for 0 <= m < p the decoder appends the B-byte big-endian form of m when
\* m < 256^B (B zero bytes for m = 0), and stops with the length error,
\* appending nothing, when 256^B <= m < p.
C9_DecoderPerBlock ==
    /\ Len(all_bytes) = n_decoded * B
    /\ \A i \in 1..n_decoded :
          LET m_int == decrypted_int_blocks[i]
          IN  /\ 0 <= m_int /\ m_int < 256^B /\ m_int < loaded.p
              /\ Len(Segment(i)) = B
              /\ BEValue(Segment(i)) = m_int
              /\ m_int = 0 => Segment(i) = [j \in 1..B |-> 0] /\ B >= 1
    /\ status = "LengthOverflowError" =>
          /\ pc = "failed"
          /\ n_decoded < Len(decrypted_int_blocks)
          /\ 256^B <= decrypted_int_blocks[n_decoded + 1]
          /\ decrypted_int_blocks[n_decoded + 1] < loaded.p
    /\ (pc = "failed" /\ n_decoded < Len(decrypted_int_blocks)) =>
          LET m_int == decrypted_int_blocks[n_decoded + 1]
          IN  IF 0 <= m_int /\ m_int < loaded.p
              THEN status = "LengthOverflowError" /\ 256^B <= m_int
              ELSE status = "DecodingRangeError"
    /\ (file = <<0>> /\ faithful /\ B >= 1 /\ pc \in {"done", "failed"}) =>
          status = "pass" /\ decrypted_bytes = <<0>>

\* The decoder has appended B zero bytes for a 0 and then stopped with the
\* length error at an integer below p that needs more than B bytes.
C9_Witness ==
    /\ status = "LengthOverflowError"
    /\ n_decoded >= 1
    /\ decrypted_int_blocks[1] = 0
    /\ B = 2
    /\ SubSeq(all_bytes, 1, 2) = <<0, 0>>

====
